---- MODULE Spec2Model ----
(***************************************************************************)
(* Role-based access control of awx/main/models/rbac.py: the role graph    *)
(* (parents), its materialized closure (ancestors), the thread-local batch *)
(* window that defers closure rebuilds, and the permission queries that    *)
(* read the closure.                                                       *)
(***************************************************************************)
EXTENDS Integers, FiniteSets, Sequences, TLC

\* ---------------------------------------------------------------- bounds
MaxRoles == 3
MaxGrants == 2
MaxNesting == 2
MaxBatchOps == 2

Roles == 1..MaxRoles
Threads == {"t1", "t2"}
Users == {"alice"}
Resources == {"X", "Y"}

\* ----------------------------------------------------------------- state
VARIABLES
    roles,                      \* ids of the rows of main_rbac_roles
    parents,                    \* Role.parents, per role id
    ancestors,                  \* Role.ancestors, per role id
    members,                    \* user.roles (Role.members), per user
    permissions,                \* rows of main_rbac_permissions, by id
    batch_role_rebuilding,      \* tls.batch_role_rebuilding, per thread
    roles_needing_rebuilding,   \* tls.roles_needing_rebuilding: <<>> when the
                                \* attribute is absent, <<set>> when present
    scopes,                     \* per thread: the saved flag of every open
                                \* batch_role_ancestor_rebuilding context
    seq_ancestors,              \* ancestors of a twin store that receives the
                                \* same mutations with a direct rebuild each
    batch_ops,                  \* mutations made in the open batch (model bound)
    stack,                      \* frames of a rebuild executed call by call:
                                \* the role and the children still to visit
    last,                       \* the last operation executed
    last_id,                    \* the id the store gave to the newest role
    singleton_name,             \* Role.singleton_name, per role id
    singleton_call,             \* per thread: its call of Role.singleton
    at_start,                   \* the ancestors as they were when the last
                                \* operation run step by step started
    actor                       \* the thread that executed the last operation

vars == <<roles, parents, ancestors, members, permissions,
          batch_role_rebuilding, roles_needing_rebuilding, scopes,
          seq_ancestors, batch_ops, stack, last,
          last_id, singleton_name, singleton_call, at_start, actor>>

\* Python's None, also what an SQL NULL reads as; a column value v reads <<v>>.
None == <<>>

\* ----------------------------------------------------- graph, brute force
\* Roles reachable from r over parent edges, r included: a traversal that
\* never reads the materialized ancestors.
RECURSIVE Reach(_, _, _)
Reach(par, frontier, seen) ==
    IF frontier = {} THEN seen
    ELSE LET next == (UNION {par[x] : x \in frontier}) \ seen
         IN  Reach(par, next, seen \cup next)

Closure(par, r) == Reach(par, {r}, {r})

IsAcyclic(par) == \A r \in Roles : \A p \in par[r] : r \notin Closure(par, p)

\* self.children.all(): the reverse of parents.
ChildrenNone(par, r) == {}
Children(par, r) == {c \in Roles : r \in par[c]}

\* ------------------------------------------- rebuild_role_ancestor_list
\* Lines 117-120: the ancestors of every parent, plus the role itself.
ActualAncestorsNoSelf(par, anc, r) == UNION {anc[p] : p \in par[r]}
ActualAncestors(par, anc, r) == (UNION {anc[p] : p \in par[r]}) \cup {r}

\* Lines 125-128: add what is missing, remove what is stale.
StoreOnlyMissing(stored, actual) == actual \ stored
StoreAddOnly(stored, actual) == stored \cup (actual \ stored)
Store(stored, actual) == (stored \cup (actual \ stored)) \ (stored \ actual)

\* Lines 117-131 run to completion: the set of ancestors maps the call can
\* leave, one per order in which the children are iterated.
RECURSIVE RebuildAll(_, _, _), RebuildEach(_, _, _)
RebuildAll(par, anc, r) ==
    LET actual == ActualAncestors(par, anc, r)
        stored == anc[r]
    IN  IF actual # stored
        THEN RebuildEach(par, [anc EXCEPT ![r] = Store(stored, actual)],
                         Children(par, r))
        ELSE {anc}
RebuildEach(par, anc, todo) ==
    IF todo = {} THEN {anc}
    ELSE UNION {UNION {RebuildEach(par, a, todo \ {c}) :
                       a \in RebuildAll(par, anc, c)} : c \in todo}

\* The flush loop of lines 68-70 over the rows in the order the query
\* returned them.
FlushFirstOnly(par, anc, order) ==
    IF order = <<>> THEN {anc} ELSE RebuildAll(par, anc, Head(order))
RECURSIVE FlushInOrder(_, _, _)
FlushInOrder(par, anc, order) ==
    IF order = <<>> THEN {anc}
    ELSE UNION {FlushInOrder(par, a, Tail(order)) :
                a \in RebuildAll(par, anc, Head(order))}

\* Every order in which a query without ORDER BY can return the rows of ids.
Orders(ids) ==
    {s \in [1..Cardinality(ids) -> ids] : \A i, j \in DOMAIN s : i # j => s[i] # s[j]}

\* The order rebuilds some role before one of its parents while that parent
\* still holds ancestors that its own rebuild is going to change.
Unsorted(par, anc, order) ==
    \E i, j \in DOMAIN order :
        /\ i < j /\ order[j] \in par[order[i]]
        /\ anc[order[j]] # {order[j]} \cup UNION {anc[p] : p \in par[order[j]]}

\* ------------------------------------------------------------ operations
Did(op, role, direct, again, unsorted) ==
    [op |-> op, role |-> role, direct |-> direct, again |-> again,
     unsorted |-> unsorted]

\* The outermost exit of a batch of n mutations, flushed in the given order.
DidFlush(n, unsorted) ==
    [op |-> "exit", role |-> n, direct |-> TRUE, again |-> FALSE,
     unsorted |-> unsorted]

\* Operations that end in a call of rebuild_role_ancestor_list on last.role.
RebuildingOps == {"create", "addParent", "removeParent", "rebuild"}

Called(t, op, r) ==
    IF batch_role_rebuilding[t] THEN Did("deferred", 0, FALSE, FALSE, FALSE)
    ELSE Did(op, r, TRUE,
             op = "rebuild" /\ last.op \in RebuildingOps /\ last.role = r /\ last.direct,
             FALSE)

\* Lines 110-131 as called by thread t on role r, the store being (par, anc):
\* deferred into the pending set while the thread's flag is on, executed
\* otherwise.
CallRebuildShared(t, r, par, anc) ==
    IF \E u \in Threads : batch_role_rebuilding[u]
    THEN /\ roles_needing_rebuilding' =
                [u \in Threads |->
                    IF roles_needing_rebuilding[u] = <<>> THEN <<>>
                    ELSE <<roles_needing_rebuilding[u][1] \cup {r}>>]
         /\ ancestors' = anc
    ELSE /\ ancestors' \in RebuildAll(par, anc, r)
         /\ UNCHANGED roles_needing_rebuilding
CallRebuildEager(t, r, par, anc) ==
    /\ ancestors' \in RebuildAll(par, anc, r)
    /\ IF batch_role_rebuilding[t]
       THEN /\ roles_needing_rebuilding[t] # <<>>
            /\ roles_needing_rebuilding' =
                   [roles_needing_rebuilding EXCEPT ![t] = <<@[1] \cup {r}>>]
       ELSE UNCHANGED roles_needing_rebuilding
CallRebuild(t, r, par, anc) ==
    IF batch_role_rebuilding[t]
    THEN /\ roles_needing_rebuilding[t] # <<>>
         /\ roles_needing_rebuilding' =
                [roles_needing_rebuilding EXCEPT ![t] = <<@[1] \cup {r}>>]
         /\ ancestors' = anc
    ELSE /\ ancestors' \in RebuildAll(par, anc, r)
         /\ UNCHANGED roles_needing_rebuilding

\* The twin store runs the same rebuild with no batch open.
TwinRebuild(r, par) == seq_ancestors' \in RebuildAll(par, seq_ancestors, r)

\* A thread that is not inside Role.singleton.
NoCall == [pc |-> "idle", name |-> None, ret |-> None]

\* The state no operation on the role graph touches.
aside == <<singleton_call, at_start>>

\* Role.objects.create(singleton_name=name) / Role.save: insert the row under
\* the next id of the table's sequence, then rebuild it.
Create(t, name) ==
    /\ batch_ops' = IF batch_role_rebuilding[t] THEN batch_ops + 1 ELSE 0
    /\ (batch_role_rebuilding[t] => batch_ops < MaxBatchOps)
    /\ last_id < MaxRoles
    /\ LET id == last_id + 1
       IN  /\ roles' = roles \cup {id}
           /\ last_id' = id
           /\ singleton_name' = [singleton_name EXCEPT ![id] = name]
           /\ CallRebuild(t, id, parents, ancestors)
           /\ TwinRebuild(id, parents)
           /\ last' = Called(t, "create", id)
    /\ actor' = t
    /\ UNCHANGED <<parents, members, permissions, batch_role_rebuilding, scopes, stack>>

\* A role created with the default singleton_name (line 84).
CreateRole(t) == Create(t, None) /\ UNCHANGED aside

\* The labels of the well-known roles, lines 34-35.
SingletonNames == {"System Administrator", "System Auditor"}

\* The rows a filter on singleton_name=name matches.
WithName(name) == {r \in roles : singleton_name[r] = name}

\* Line 140, the first step of Role.singleton(name) in thread t: the role
\* holding the label is returned, Role.DoesNotExist leads to line 142.
SingletonGet(t, name) ==
    /\ singleton_call[t].pc = "idle"
    /\ singleton_call' = [singleton_call EXCEPT ![t] =
           IF WithName(name) = {}
           THEN [pc |-> "create", name |-> name, ret |-> None]
           ELSE IF Cardinality(WithName(name)) = 1
           THEN [pc |-> "returned", name |-> name,
                 ret |-> <<CHOOSE r \in WithName(name) : TRUE>>]
           ELSE [pc |-> "raised", name |-> name, ret |-> None]]
    /\ actor' = t
    /\ UNCHANGED <<roles, parents, ancestors, members, permissions,
                   batch_role_rebuilding, roles_needing_rebuilding, scopes,
                   seq_ancestors, batch_ops, stack, last, last_id,
                   singleton_name, at_start>>

\* Lines 141-143: the insert. The unique index of line 84 rejects a second
\* row with the label and create raises IntegrityError, which singleton
\* does not catch.
SingletonCreate(t) ==
    /\ singleton_call[t].pc = "create"
    /\ IF WithName(singleton_call[t].name) # {}
       THEN /\ singleton_call' = [singleton_call EXCEPT ![t].pc = "raised"]
            /\ actor' = t
            /\ UNCHANGED <<roles, parents, ancestors, members, permissions,
                           batch_role_rebuilding, roles_needing_rebuilding,
                           scopes, seq_ancestors, batch_ops, stack, last,
                           last_id, singleton_name>>
       ELSE /\ Create(t, singleton_call[t].name)
            /\ singleton_call' = [singleton_call EXCEPT
                   ![t].pc = "returned", ![t].ret = <<last_id + 1>>]
    /\ UNCHANGED at_start

\* The caller has the result, or the exception, of its call.
SingletonDone(t) ==
    /\ singleton_call[t].pc \in {"returned", "raised"}
    /\ singleton_call' = [singleton_call EXCEPT ![t] = NoCall]
    /\ actor' = t
    /\ UNCHANGED <<roles, parents, ancestors, members, permissions,
                   batch_role_rebuilding, roles_needing_rebuilding, scopes,
                   seq_ancestors, batch_ops, stack, last, last_id,
                   singleton_name, at_start>>

\* role.parents.add(parent): the edge, then the rebuild of role.
AddParent(t, r, p) ==
    /\ batch_ops' = IF batch_role_rebuilding[t] THEN batch_ops + 1 ELSE 0
    /\ (batch_role_rebuilding[t] => batch_ops < MaxBatchOps)
    /\ r \in roles /\ p \in roles /\ p \notin parents[r]
    /\ LET par == [parents EXCEPT ![r] = @ \cup {p}]
       IN  /\ IsAcyclic(par)
           /\ parents' = par
           /\ CallRebuild(t, r, par, ancestors)
           /\ TwinRebuild(r, par)
    /\ last' = Called(t, "addParent", r)
    /\ actor' = t
    /\ UNCHANGED <<roles, members, permissions, batch_role_rebuilding, scopes, stack>>
    /\ UNCHANGED <<last_id, singleton_name, aside>>

\* role.parents.remove(parent): the edge, then the rebuild of role.
RemoveParent(t, r, p) ==
    /\ batch_ops' = IF batch_role_rebuilding[t] THEN batch_ops + 1 ELSE 0
    /\ (batch_role_rebuilding[t] => batch_ops < MaxBatchOps)
    /\ r \in roles /\ p \in parents[r]
    /\ LET par == [parents EXCEPT ![r] = @ \ {p}]
       IN  /\ parents' = par
           /\ CallRebuild(t, r, par, ancestors)
           /\ TwinRebuild(r, par)
    /\ last' = Called(t, "removeParent", r)
    /\ actor' = t
    /\ UNCHANGED <<roles, members, permissions, batch_role_rebuilding, scopes, stack>>
    /\ UNCHANGED <<last_id, singleton_name, aside>>

\* role.rebuild_role_ancestor_list() called on its own.
Rebuild(t, r) ==
    /\ batch_ops' = IF batch_role_rebuilding[t] THEN batch_ops + 1 ELSE 0
    /\ (batch_role_rebuilding[t] => batch_ops < MaxBatchOps)
    /\ r \in roles
    /\ CallRebuild(t, r, parents, ancestors)
    /\ TwinRebuild(r, parents)
    /\ last' = Called(t, "rebuild", r)
    /\ actor' = t
    /\ UNCHANGED <<roles, parents, members, permissions, batch_role_rebuilding, scopes, stack>>
    /\ UNCHANGED <<last_id, singleton_name, aside>>

\* The locals of one running batch_role_ancestor_rebuilding generator: its
\* argument and the flag it read at line 55.
Scope(saved, allow_nesting) == [saved |-> saved, allow_nesting |-> allow_nesting]

\* Lines 59-60: a new empty set unless a batch was already active.
EnterPendingAlways(saved, pending) == <<{}>>
EnterPendingKeep(saved, pending) == IF pending = <<>> THEN <<{}>> ELSE pending
EnterPending(saved, pending) == IF ~saved THEN <<{}>> ELSE pending

\* Line 64: the flag goes back to what line 55 read, before the flush.
FinallyFlagKept(saved, flag) == flag
FinallyFlag(saved, flag) == saved

\* Lines 55-61: entering the context manager.
EnterBatch(t, allow_nesting) ==
    /\ UNCHANGED batch_ops
    /\ Len(scopes[t]) < MaxNesting
    /\ LET saved == batch_role_rebuilding[t]
       IN  /\ batch_role_rebuilding' = [batch_role_rebuilding EXCEPT ![t] = TRUE]
           /\ roles_needing_rebuilding' =
                  [roles_needing_rebuilding EXCEPT ![t] = EnterPending(saved, @)]
           /\ scopes' = [scopes EXCEPT ![t] = Append(@, Scope(saved, allow_nesting))]
    /\ last' = Did("enter", 0, TRUE, FALSE, FALSE)
    /\ actor' = t
    /\ UNCHANGED <<roles, parents, ancestors, members, permissions, seq_ancestors, stack>>
    /\ UNCHANGED <<last_id, singleton_name, aside>>

\* Lines 63-71: leaving the context manager; the outermost one flushes.
ExitBatch(t) ==
    /\ batch_ops' = IF Len(scopes[t]) > 1 THEN batch_ops ELSE 0
    /\ scopes[t] # <<>>
    /\ LET saved == scopes[t][Len(scopes[t])].saved
       IN  /\ batch_role_rebuilding' =
                  [batch_role_rebuilding EXCEPT ![t] = FinallyFlag(saved, @)]
           /\ IF ~saved
              THEN /\ roles_needing_rebuilding[t] # <<>>
                   /\ \E order \in Orders(roles_needing_rebuilding[t][1] \cap roles) :
                          /\ ancestors' \in FlushInOrder(parents, ancestors, order)
                          /\ last' = DidFlush(batch_ops, Unsorted(parents, ancestors, order))
                   /\ roles_needing_rebuilding' =
                          [roles_needing_rebuilding EXCEPT ![t] = <<>>]
              ELSE /\ UNCHANGED <<ancestors, roles_needing_rebuilding>>
                   /\ last' = Did("exitNested", 0, TRUE, FALSE, FALSE)
    /\ scopes' = [scopes EXCEPT ![t] = SubSeq(@, 1, Len(@) - 1)]
    /\ actor' = t
    /\ UNCHANGED <<roles, parents, members, permissions, seq_ancestors, stack>>
    /\ UNCHANGED <<last_id, singleton_name, aside>>

\* --------------------------------------- the rebuild, one call at a time
\* A frame of the call stack: a loop (the children loop of line 130 in a
\* call on role, or the flush loop of line 68 with role 0) and the roles it
\* still has to visit.
Frame(role, todo) == [role |-> role, todo |-> todo]

Top == stack[Len(stack)]
Popped == SubSeq(stack, 1, Len(stack) - 1)

\* What a for loop has left to visit after it has taken c.
RestStuck(todo, c) == todo
Rest(todo, c) == todo \ {c}

\* The transaction.atomic() block of line 67 is open while the flush loop,
\* the bottom frame, is running; a rebuild called directly opens none.
InAtomic == stack # <<>> /\ stack[1].role = 0

\* What another connection reads: the writes of an open transaction are
\* not visible to it before the commit, any other write is at once.
Visible == IF InAtomic THEN at_start ELSE ancestors

\* Lines 117-131 up to the children loop, the flag being off, the parent
\* edges being par, with the frames below already in below: the write, and
\* the frame of the loop over the children when the ancestors differed.
Enter(r, par, below) ==
    LET actual == ActualAncestors(par, ancestors, r)
        stored == ancestors[r]
    IN  IF actual # stored
        THEN /\ ancestors' = [ancestors EXCEPT ![r] = Store(stored, actual)]
             /\ stack' = Append(below, Frame(r, Children(par, r)))
        ELSE /\ ancestors' = ancestors
             /\ stack' = below

\* Lines 110-131 as thread t calls them on role r: lines 112-115 put the id
\* into the pending set and return while the thread's flag is on.
Call(t, r, par, below) ==
    IF batch_role_rebuilding[t]
    THEN /\ roles_needing_rebuilding[t] # <<>>
         /\ roles_needing_rebuilding' =
                [roles_needing_rebuilding EXCEPT ![t] = <<@[1] \cup {r}>>]
         /\ ancestors' = ancestors
         /\ stack' = below
    ELSE /\ Enter(r, par, below)
         /\ UNCHANGED roles_needing_rebuilding

Idle == last.op = "init" /\ stack = <<>>

\* A top-level call of rebuild_role_ancestor_list with no batch open.
TopRebuild(r) ==
    /\ Idle /\ r \in roles
    /\ Enter(r, parents, <<>>)
    /\ last' = Did("rebuild", r, TRUE, FALSE, FALSE)
    /\ UNCHANGED <<roles, parents, members, permissions, batch_role_rebuilding,
                   roles_needing_rebuilding, scopes, seq_ancestors, batch_ops>>
    /\ UNCHANGED <<last_id, singleton_name, aside, actor>>

\* Lines 66-68: the flush of a rebuild set starts its loop.
TopFlush(rebuild_set) ==
    /\ Idle
    /\ stack' = <<Frame(0, rebuild_set \cap roles)>>
    /\ last' = DidFlush(0, FALSE)
    /\ UNCHANGED <<roles, parents, ancestors, members, permissions,
                   batch_role_rebuilding, roles_needing_rebuilding, scopes,
                   seq_ancestors, batch_ops>>
    /\ UNCHANGED <<last_id, singleton_name, aside, actor>>

\* Lines 70 / 131: the running loop of thread t takes its next role and
\* calls rebuild on it.
Visit(t) ==
    /\ stack # <<>> /\ Top.todo # {}
    /\ \E c \in Top.todo :
           Call(t, c, parents, Append(Popped, Frame(Top.role, Rest(Top.todo, c))))
    /\ UNCHANGED <<roles, parents, members, permissions, batch_role_rebuilding,
                   scopes, seq_ancestors, batch_ops, last>>
    /\ UNCHANGED <<last_id, singleton_name, singleton_call, at_start, actor>>

\* The running loop is exhausted: the call returns; below the flush loop
\* the transaction commits and line 71 deletes the pending set.
Return_(t) ==
    /\ stack # <<>> /\ Top.todo = {}
    /\ stack' = Popped
    /\ roles_needing_rebuilding' =
           IF Len(stack) = 1 /\ Top.role = 0
           THEN [roles_needing_rebuilding EXCEPT ![t] = <<>>]
           ELSE roles_needing_rebuilding
    /\ UNCHANGED <<roles, parents, ancestors, members, permissions,
                   batch_role_rebuilding, scopes, seq_ancestors, batch_ops, last>>
    /\ UNCHANGED <<last_id, singleton_name, singleton_call, at_start, actor>>

\* -------------------------- the operations of a thread, one call at a time
\* Thread t is between two operations of its program: no call is running
\* and no exception is on its way out of the scopes it has open.
Ready(t) == stack = <<>> /\ ~(last.op = "bodyRaised" /\ scopes[t] # <<>>)

\* Role.save: the row is inserted, then line 94 calls the rebuild.
StartCreate(t) ==
    /\ Ready(t)
    /\ batch_ops' = IF batch_role_rebuilding[t] THEN batch_ops + 1 ELSE 0
    /\ (batch_role_rebuilding[t] => batch_ops < MaxBatchOps)
    /\ last_id < MaxRoles
    /\ LET id == last_id + 1
       IN  /\ roles' = roles \cup {id}
           /\ last_id' = id
           /\ Call(t, id, parents, <<>>)
           /\ last' = Called(t, "create", id)
    /\ at_start' = ancestors
    /\ actor' = t
    /\ UNCHANGED <<parents, members, permissions, batch_role_rebuilding, scopes,
                   seq_ancestors, singleton_name, singleton_call>>

\* role.parents.add(parent): the edge, then the call of the rebuild of role.
StartAddParent(t, r, p) ==
    /\ Ready(t)
    /\ batch_ops' = IF batch_role_rebuilding[t] THEN batch_ops + 1 ELSE 0
    /\ (batch_role_rebuilding[t] => batch_ops < MaxBatchOps)
    /\ r \in roles /\ p \in roles /\ p \notin parents[r]
    /\ LET par == [parents EXCEPT ![r] = @ \cup {p}]
       IN  /\ IsAcyclic(par)
           /\ parents' = par
           /\ Call(t, r, par, <<>>)
    /\ last' = Called(t, "addParent", r)
    /\ at_start' = ancestors
    /\ actor' = t
    /\ UNCHANGED <<roles, members, permissions, batch_role_rebuilding, scopes,
                   seq_ancestors, last_id, singleton_name, singleton_call>>

\* role.parents.remove(parent): the edge, then the call of the rebuild.
StartRemoveParent(t, r, p) ==
    /\ Ready(t)
    /\ batch_ops' = IF batch_role_rebuilding[t] THEN batch_ops + 1 ELSE 0
    /\ (batch_role_rebuilding[t] => batch_ops < MaxBatchOps)
    /\ r \in roles /\ p \in parents[r]
    /\ LET par == [parents EXCEPT ![r] = @ \ {p}]
       IN  /\ parents' = par
           /\ Call(t, r, par, <<>>)
    /\ last' = Called(t, "removeParent", r)
    /\ at_start' = ancestors
    /\ actor' = t
    /\ UNCHANGED <<roles, members, permissions, batch_role_rebuilding, scopes,
                   seq_ancestors, last_id, singleton_name, singleton_call>>

\* role.delete() of a role without children: the row goes, and with it its
\* rows in the parents, ancestors and members relations and its grants. No
\* rebuild is called, and an id in a pending set stays there.
DeleteRole(t, r) ==
    /\ Ready(t)
    /\ r \in roles /\ Children(parents, r) = {}
    /\ roles' = roles \ {r}
    /\ parents' = [parents EXCEPT ![r] = {}]
    /\ ancestors' = [x \in Roles |-> IF x = r THEN {} ELSE ancestors[x] \ {r}]
    /\ members' = [u \in Users |-> members[u] \ {r}]
    /\ permissions' = SelectSeq(permissions, LAMBDA g : g.role # r)
    /\ singleton_name' = [singleton_name EXCEPT ![r] = None]
    /\ last' = Did("delete", r, FALSE, FALSE, FALSE)
    /\ actor' = t
    /\ UNCHANGED <<batch_role_rebuilding, roles_needing_rebuilding, scopes,
                   seq_ancestors, batch_ops, stack, last_id, singleton_call,
                   at_start>>

\* The body of the innermost open scope of thread t raises: the exception
\* leaves the with statements one by one, running the finally of each.
BodyRaises(t) ==
    /\ Ready(t) /\ scopes[t] # <<>>
    /\ last' = Did("bodyRaised", 0, FALSE, FALSE, FALSE)
    /\ actor' = t
    /\ UNCHANGED <<roles, parents, ancestors, members, permissions,
                   batch_role_rebuilding, roles_needing_rebuilding, scopes,
                   seq_ancestors, batch_ops, stack, last_id, singleton_name,
                   singleton_call, at_start>>

\* Lines 63-68: the finally of the innermost open scope, reached by the end
\* of the body or by an exception out of it. The flag is put back; the
\* outermost scope then opens the transaction and starts the flush loop over
\* the queued ids that still have a row.
Finally(t) ==
    /\ stack = <<>> /\ scopes[t] # <<>>
    /\ batch_ops' = IF Len(scopes[t]) > 1 THEN batch_ops ELSE 0
    /\ LET saved == scopes[t][Len(scopes[t])].saved
           raising == last.op = "bodyRaised"
       IN  /\ batch_role_rebuilding' =
                  [batch_role_rebuilding EXCEPT ![t] = FinallyFlag(saved, @)]
           /\ IF ~saved
              THEN /\ roles_needing_rebuilding[t] # <<>>
                   /\ stack' = <<Frame(0, roles_needing_rebuilding[t][1] \cap roles)>>
                   /\ at_start' = ancestors
                   /\ last' = [DidFlush(batch_ops, FALSE) EXCEPT
                                  !.op = IF raising THEN "exitRaising" ELSE "exit"]
              ELSE /\ UNCHANGED <<stack, at_start>>
                   /\ last' = IF raising THEN last
                              ELSE Did("exitNested", 0, TRUE, FALSE, FALSE)
    /\ scopes' = [scopes EXCEPT ![t] = SubSeq(@, 1, Len(@) - 1)]
    /\ actor' = t
    /\ UNCHANGED <<roles, parents, ancestors, members, permissions,
                   roles_needing_rebuilding, seq_ancestors, last_id,
                   singleton_name, singleton_call>>

\* A statement of the running call raises (a query or a write fails): the
\* exception unwinds every frame. Inside the transaction of line 67 the
\* writes made since it began are rolled back and line 71 is not reached;
\* a rebuild called directly has every write already committed.
Fail(t) ==
    /\ stack # <<>>
    /\ stack' = <<>>
    /\ ancestors' = IF InAtomic THEN at_start ELSE ancestors
    /\ last' = Did(IF InAtomic THEN "flushFailed" ELSE "rebuildFailed",
                   0, FALSE, FALSE, FALSE)
    /\ actor' = t
    /\ UNCHANGED <<roles, parents, members, permissions, batch_role_rebuilding,
                   roles_needing_rebuilding, scopes, seq_ancestors, batch_ops,
                   last_id, singleton_name, singleton_call, at_start>>

\* ------------------------------------------------------------ permissions
\* The eight integer columns of RolePermission.
Flags == {"create", "read", "write", "delete", "update", "execute", "scm_update", "use"}

\* A row's flag columns: v on the flags of on, the column default elsewhere.
FlagsOf(on, v) == [f \in Flags |-> IF f \in on THEN v ELSE 0]

\* The flag values a grant is created with.
FlagInputs ==
    { FlagsOf({}, 0),
      FlagsOf({"read"}, 1),
      FlagsOf({"write"}, 1),
      [FlagsOf({"read"}, 1) EXCEPT !["use"] = 2] }

\* The (resource, flags) a grant is created with.
GrantInputs ==
    ({"X"} \X FlagInputs) \cup {<<"Y", FlagsOf({"read"}, 1)>>}

\* user.roles.all()
UserRoles(u) == members[u]

\* Lines 206-210: RolePermission joined to the ancestors of its role, one row
\* per (permission, ancestor) with the ancestor among the user's roles.
UserRowsFlipped(resource, u) ==
    {row \in (DOMAIN permissions) \X Roles :
        /\ permissions[row[1]].resource = resource
        /\ permissions[row[1]].role \in ancestors[row[2]]
        /\ row[2] \in UserRoles(u)}
UserRows(resource, u) ==
    {row \in (DOMAIN permissions) \X Roles :
        /\ permissions[row[1]].resource = resource
        /\ row[2] \in ancestors[permissions[row[1]].role]
        /\ row[2] \in UserRoles(u)}

\* Lines 235-239: the same join, the ancestor being the given role.
RoleRowsFlipped(resource, role) ==
    {row \in (DOMAIN permissions) \X Roles :
        /\ permissions[row[1]].resource = resource
        /\ permissions[row[1]].role \in ancestors[row[2]]
        /\ row[2] = role}
RoleRows(resource, role) ==
    {row \in (DOMAIN permissions) \X Roles :
        /\ permissions[row[1]].resource = resource
        /\ row[2] \in ancestors[permissions[row[1]].role]
        /\ row[2] = role}

\* Max(column) over the rows of a query: NULL over no rows, else the
\* running maximum.
RECURSIVE MaxFold(_, _, _)
MaxFold(rows, f, best) ==
    IF rows = {} THEN best
    ELSE LET row == CHOOSE x \in rows : TRUE
             v == permissions[row[1]].flags[f]
         IN  MaxFold(rows \ {row}, f, IF v > best THEN v ELSE best)

MaxAnyRow(rows, f) ==
    IF rows = {} THEN None
    ELSE <<permissions[(CHOOSE x \in rows : TRUE)[1]].flags[f]>>
Max(rows, f) ==
    IF rows = {} THEN None
    ELSE LET row == CHOOSE x \in rows : TRUE
         IN  <<MaxFold(rows \ {row}, f, permissions[row[1]].flags[f])>>

\* Lines 212-221 / 241-250: the aggregate over the eight columns.
Aggregate(rows) == [f \in Flags |-> Max(rows, f)]

\* Lines 222-224 / 251-253: None when the aggregated read is NULL.
ReturnFalsy(res) ==
    IF res["read"] \in {None, <<0>>} THEN None ELSE [f \in Flags |-> res[f][1]]
Return(res) ==
    IF res["read"] = None THEN None ELSE [f \in Flags |-> res[f][1]]

get_user_permissions_on_resource(resource, u) ==
    Return(Aggregate(UserRows(resource, u)))

get_role_permissions_on_resource(resource, role) ==
    Return(Aggregate(RoleRows(resource, role)))

\* Lines 145-146: self is among the stored ancestors of role.
is_ancestor_of(self, role) == self \in ancestors[role]

\* role.members.add(user)
AddMember(u, r) ==
    /\ r \in roles /\ r \notin members[u]
    /\ members' = [members EXCEPT ![u] = @ \cup {r}]
    /\ last' = Did("addMember", 0, TRUE, FALSE, FALSE)
    /\ UNCHANGED <<roles, parents, ancestors, permissions, batch_role_rebuilding,
                   roles_needing_rebuilding, scopes, seq_ancestors, batch_ops, stack>>
    /\ UNCHANGED <<last_id, singleton_name, aside, actor>>

\* RolePermission.objects.create(role=, resource=, <flags>)
Grant(r, resource, flags) ==
    /\ r \in roles /\ Len(permissions) < MaxGrants
    /\ permissions' = Append(permissions,
                             [role |-> r, resource |-> resource, flags |-> flags])
    /\ last' = Did("grant", 0, TRUE, FALSE, FALSE)
    /\ UNCHANGED <<roles, parents, ancestors, members, batch_role_rebuilding,
                   roles_needing_rebuilding, scopes, seq_ancestors, batch_ops, stack>>
    /\ UNCHANGED <<last_id, singleton_name, aside, actor>>

\* ------------------------------------------------------- specifications
Init ==
    /\ roles = {}
    /\ parents = [r \in Roles |-> {}]
    /\ ancestors = [r \in Roles |-> {}]
    /\ members = [u \in Users |-> {}]
    /\ permissions = <<>>
    /\ batch_role_rebuilding = [t \in Threads |-> FALSE]
    /\ roles_needing_rebuilding = [t \in Threads |-> <<>>]
    /\ scopes = [t \in Threads |-> <<>>]
    /\ seq_ancestors = [r \in Roles |-> {}]
    /\ batch_ops = 0
    /\ stack = <<>>
    /\ last = Did("init", 0, TRUE, FALSE, FALSE)
    /\ last_id = 0
    /\ singleton_name = [r \in Roles |-> None]
    /\ singleton_call = [t \in Threads |-> NoCall]
    /\ at_start = ancestors
    /\ actor = "t1"

\* One execution context mutating the graph, inside and outside batches,
\* which it opens with the default argument of line 44.
Next ==
    \/ CreateRole("t1")
    \/ \E r, p \in Roles : AddParent("t1", r, p)
    \/ \E r, p \in Roles : RemoveParent("t1", r, p)
    \/ \E r \in Roles : Rebuild("t1", r)
    \/ EnterBatch("t1", FALSE)
    \/ ExitBatch("t1")

Spec == Init /\ [][Next]_vars

\* The same, every scope being opened with either value of allow_nesting.
NextNest ==
    \/ CreateRole("t1")
    \/ \E r, p \in Roles : AddParent("t1", r, p)
    \/ \E r, p \in Roles : RemoveParent("t1", r, p)
    \/ \E r \in Roles : Rebuild("t1", r)
    \/ \E allow_nesting \in BOOLEAN : EnterBatch("t1", allow_nesting)
    \/ ExitBatch("t1")

SpecNest == Init /\ [][NextNest]_vars

\* The graph mutated with no batch ever opened.
NextDirect ==
    \/ CreateRole("t1")
    \/ \E r, p \in Roles : AddParent("t1", r, p)
    \/ \E r, p \in Roles : RemoveParent("t1", r, p)
    \/ \E r \in Roles : Rebuild("t1", r)

SpecDirect == Init /\ [][NextDirect]_vars

\* The graph mutated with no batch opened, members assigned, grants made.
NextPerm ==
    \/ CreateRole("t1")
    \/ \E r, p \in Roles : AddParent("t1", r, p)
    \/ \E r, p \in Roles : RemoveParent("t1", r, p)
    \/ \E u \in Users, r \in Roles : AddMember(u, r)
    \/ \E r \in Roles, g \in GrantInputs : Grant(r, g[1], g[2])

SpecPerm == Init /\ [][NextPerm]_vars

\* The same without members: the role query reads none.
NextRolePerm ==
    \/ CreateRole("t1")
    \/ \E r, p \in Roles : AddParent("t1", r, p)
    \/ \E r, p \in Roles : RemoveParent("t1", r, p)
    \/ \E r \in Roles, g \in GrantInputs : Grant(r, g[1], g[2])

SpecRolePerm == Init /\ [][NextRolePerm]_vars

\* Two threads looking the well-known roles up, among roles created plainly.
NextSingleton ==
    \/ \E t \in Threads, name \in SingletonNames : SingletonGet(t, name)
    \/ \E t \in Threads : SingletonCreate(t)
    \/ \E t \in Threads : SingletonDone(t)
    \/ CreateRole("t1")

SpecSingleton == Init /\ [][NextSingleton]_vars

\* The scenario of the design: org (1) without parents, team (2) under org,
\* project-admin (3) under team with create, read, update and delete granted
\* on X, alice a direct member of project-admin, all built with no batch.
CrudFlags == FlagsOf({"create", "read", "update", "delete"}, 1)

InitScenario ==
    /\ roles = {1, 2, 3}
    /\ parents = [r \in Roles |-> IF r \in {2, 3} THEN {r - 1} ELSE {}]
    /\ ancestors = [r \in Roles |-> IF r \in {1, 2, 3} THEN 1..r ELSE {}]
    /\ members = [u \in Users |-> {3}]
    /\ permissions = <<[role |-> 3, resource |-> "X", flags |-> CrudFlags]>>
    /\ batch_role_rebuilding = [t \in Threads |-> FALSE]
    /\ roles_needing_rebuilding = [t \in Threads |-> <<>>]
    /\ scopes = [t \in Threads |-> <<>>]
    /\ seq_ancestors = ancestors
    /\ batch_ops = 0
    /\ stack = <<>>
    /\ last = Did("init", 0, TRUE, FALSE, FALSE)
    /\ last_id = 3
    /\ singleton_name = [r \in Roles |-> None]
    /\ singleton_call = [t \in Threads |-> NoCall]
    /\ at_start = [r \in Roles |-> {}]
    /\ actor = "t1"

\* Edges removed and added, members assigned and grants made from there on.
NextScenario ==
    \/ \E r, p \in Roles : RemoveParent("t1", r, p)
    \/ \E r, p \in Roles : AddParent("t1", r, p)
    \/ \E u \in Users, r \in Roles : AddMember(u, r)
    \/ \E r \in Roles, g \in GrantInputs : Grant(r, g[1], g[2])

SpecScenario == InitScenario /\ [][NextScenario]_vars

\* Roles created inside and outside batches (opened with the default
\* argument), members assigned, read granted on X.
NextStale ==
    \/ CreateRole("t1")
    \/ EnterBatch("t1", FALSE)
    \/ ExitBatch("t1")
    \/ \E u \in Users, r \in Roles : AddMember(u, r)
    \/ \E r \in Roles : Grant(r, "X", FlagsOf({"read"}, 1))

SpecStale == Init /\ [][NextStale]_vars

\* Two threads, each growing the graph inside and outside its own batches,
\* which it opens with the default argument of line 44.
NextTwo ==
    \/ \E t \in Threads : CreateRole(t)
    \/ \E t \in Threads, r, p \in Roles : AddParent(t, r, p)
    \/ \E t \in Threads, r \in Roles : Rebuild(t, r)
    \/ \E t \in Threads : EnterBatch(t, FALSE)
    \/ \E t \in Threads : ExitBatch(t)

SpecTwo == Init /\ [][NextTwo]_vars

\* One thread whose operations run call by call, any statement of a running
\* rebuild or flush being able to fail, any body of a scope to raise.
NextExec ==
    \/ StartCreate("t1")
    \/ \E r, p \in Roles : StartAddParent("t1", r, p)
    \/ \E r, p \in Roles : StartRemoveParent("t1", r, p)
    \/ \E r \in Roles : DeleteRole("t1", r)
    \/ Ready("t1") /\ EnterBatch("t1", FALSE)
    \/ BodyRaises("t1")
    \/ Finally("t1")
    \/ Visit("t1")
    \/ Return_("t1")
    \/ Fail("t1")

SpecExec == Init /\ [][NextExec]_vars

\* A finite store with an acyclic parent relation and any contents of the
\* ancestors sets, on which one top-level rebuild or one flush is run.
InitTerm ==
    /\ roles = Roles
    /\ parents \in {par \in [Roles -> SUBSET Roles] : IsAcyclic(par)}
    /\ ancestors \in [Roles -> SUBSET Roles]
    /\ members = [u \in Users |-> {}]
    /\ permissions = <<>>
    /\ batch_role_rebuilding = [t \in Threads |-> FALSE]
    /\ roles_needing_rebuilding = [t \in Threads |-> <<>>]
    /\ scopes = [t \in Threads |-> <<>>]
    /\ seq_ancestors = [r \in Roles |-> {}]
    /\ batch_ops = 0
    /\ stack = <<>>
    /\ last = Did("init", 0, TRUE, FALSE, FALSE)
    /\ last_id = MaxRoles
    /\ singleton_name = [r \in Roles |-> None]
    /\ singleton_call = [t \in Threads |-> NoCall]
    /\ at_start = [r \in Roles |-> {}]
    /\ actor = "t1"

NextTerm ==
    \/ \E r \in Roles : TopRebuild(r)
    \/ \E rebuild_set \in SUBSET Roles : TopFlush(rebuild_set)
    \/ Visit("t1")
    \/ Return_("t1")

\* A call that has started keeps running: it is one thread's sequential code.
SpecTerm == InitTerm /\ [][NextTerm]_vars /\ WF_vars(NextTerm)

\* ------------------------------------------------------------ properties
NoBatchOpen == \A t \in Threads : ~batch_role_rebuilding[t]

\* C1: with no batch ever open, after any sequence of create / addParent /
\* removeParent that keeps the graph acyclic, each followed by its direct
\* rebuild, the ancestors of every role are the reflexive-transitive closure
\* of parents as computed by the traversal Reach.
ClosureCorrect ==
    \A r \in roles : ancestors[r] = Closure(parents, r)

\* An edge was added under a role that has a child, and the rebuild carried
\* the new ancestors down to that child.
ClosureCorrectWitness ==
    /\ last.op = "addParent"
    /\ \E c \in roles :
           /\ last.role \in parents[c]
           /\ parents[last.role] # {}
           /\ parents[last.role] \subseteq ancestors[c]

\* C2: whenever no batch window is open, every role satisfies I1,
\* ancestors(R) = {R} united with the ancestors of each of its parents,
\* whatever was mutated inside the batch and in whatever order the flush
\* iterated the queued roles.
InvariantI1AfterFlush ==
    NoBatchOpen =>
        \A r \in roles :
            ancestors[r] = {r} \cup UNION {ancestors[p] : p \in parents[r]}

\* A flush has just rebuilt a role before its parent, the parent still being
\* stale at that time.
InvariantI1Witness ==
    /\ last.op = "exit" /\ last.unsorted /\ NoBatchOpen
    /\ \E r \in roles : Cardinality(ancestors[r]) >= 3

\* C3: after the outermost exit of a batch the ancestors of every role are
\* those of the twin store, which received the same mutations one by one,
\* each with a direct rebuild; the twin's result depends on the final graph
\* alone, hence not on the order the mutations were applied in.
BatchEquivalence ==
    NoBatchOpen =>
        /\ \A r \in roles : ancestors[r] = seq_ancestors[r]
        /\ \A r \in roles : seq_ancestors[r] = Closure(parents, r)

\* A batch of at least two mutations has been flushed and left some role
\* with an ancestor besides itself.
BatchEquivalenceWitness ==
    /\ last.op = "exit" /\ last.role >= 2 /\ NoBatchOpen
    /\ \E r \in roles : ancestors[r] # {r}

\* The grants a query aggregates: the permissions of its rows.
UserGrants(resource, u) == {row[1] : row \in UserRows(resource, u)}
RoleGrants(resource, role) == {row[1] : row \in RoleRows(resource, role)}

\* The grants on a resource made to a role from which some role of held is
\* reachable over parent edges (a descendant of a held role, or the held
\* role itself), by graph traversal.
GrantsAtOrBelow(resource, held) ==
    {i \in DOMAIN permissions :
        /\ permissions[i].resource = resource
        /\ Closure(parents, permissions[i].role) \cap held # {}}

\* The grants on a resource made to a role reachable over parent edges from
\* some role of held (an ancestor of a held role, or the held role itself).
GrantsAtOrAbove(resource, held) ==
    {i \in DOMAIN permissions :
        /\ permissions[i].resource = resource
        /\ \E m \in held : permissions[i].role \in Closure(parents, m)}

\* C4 as stated: the user query aggregates exactly the grants on the
\* resource whose role is an ancestor of (or equal to) a role the user holds.
UserSelectsAncestors ==
    \A u \in Users, resource \in Resources :
        UserGrants(resource, u) = GrantsAtOrAbove(resource, members[u])

\* C4 as amended: the user query aggregates exactly the grants on the
\* resource whose role is a descendant of (or equal to) a role the user
\* holds; a grant on a role that is only an ancestor of the user's roles, or
\* unrelated to them, is not selected.
UserSelectsDescendants ==
    \A u \in Users, resource \in Resources :
        UserGrants(resource, u) = GrantsAtOrBelow(resource, members[u])

\* The user holds a role that has both a parent and a child, each with a
\* grant on X: the child's grant is selected, the parent's is not.
UserSelectsWitness ==
    \E u \in Users, m \in Roles, i, j \in DOMAIN permissions :
        /\ m \in members[u]
        /\ permissions[i].resource = "X" /\ permissions[j].resource = "X"
        /\ m \in parents[permissions[i].role]
        /\ permissions[j].role \in parents[m]
        /\ i \in UserGrants("X", u)
        /\ j \notin UserGrants("X", u)

\* C5: the role query aggregates exactly the grants on the resource made to
\* the given role itself or to a descendant of it, the descendants being
\* read off the stored ancestors and, equally, off the parent graph.
RoleSelectsDescendants ==
    \A role \in roles, resource \in Resources :
        /\ RoleGrants(resource, role) =
               {i \in DOMAIN permissions :
                   /\ permissions[i].resource = resource
                   /\ \/ permissions[i].role = role
                      \/ role \in ancestors[permissions[i].role]}
        /\ RoleGrants(resource, role) = GrantsAtOrBelow(resource, {role})

\* A role with a parent and a child, a grant on each: the query for the role
\* selects the child's grant and not the parent's.
RoleSelectsWitness ==
    \E role \in roles, i, j \in DOMAIN permissions :
        /\ permissions[i].resource = "X" /\ permissions[j].resource = "X"
        /\ role \in parents[permissions[i].role]
        /\ permissions[j].role \in parents[role]
        /\ i \in RoleGrants("X", role)
        /\ j \notin RoleGrants("X", role)

\* The greatest value of a flag over a non-empty set of grants.
Greatest(grants, f) ==
    CHOOSE m \in {permissions[i].flags[f] : i \in grants} :
        \A i \in grants : permissions[i].flags[f] <= m

IsMaxOver(result, grants) ==
    /\ result # None
    /\ \A f \in Flags : result[f] = Greatest(grants, f)

\* C6: when the selected grants are not empty, each query returns a record
\* holding, for each of the eight flags, the maximum of that flag over the
\* selected grants.
AggregatesMaxima ==
    /\ \A u \in Users, resource \in Resources :
           UserGrants(resource, u) # {} =>
               IsMaxOver(get_user_permissions_on_resource(resource, u),
                         UserGrants(resource, u))
    /\ \A role \in roles, resource \in Resources :
           RoleGrants(resource, role) # {} =>
               IsMaxOver(get_role_permissions_on_resource(resource, role),
                         RoleGrants(resource, role))

\* Two grants on the same role and resource, one with read alone and one
\* with write alone, held by the user: the query returns read=1 and write=1.
AggregatesMaximaWitness ==
    \E u \in Users, i, j \in DOMAIN permissions :
        /\ permissions[i].role = permissions[j].role
        /\ permissions[i].role \in members[u]
        /\ permissions[i].resource = "X" /\ permissions[j].resource = "X"
        /\ permissions[i].flags = FlagsOf({"read"}, 1)
        /\ permissions[j].flags = FlagsOf({"write"}, 1)
        /\ get_user_permissions_on_resource("X", u) = FlagsOf({"read", "write"}, 1)

\* C7: a query returns None exactly when no grant applies (no grant on the
\* resource at or below a held role, or the given role); in particular a
\* grant whose flags are all 0 yields a record, not None.
AbsenceSignaling ==
    /\ \A u \in Users, resource \in Resources :
           (get_user_permissions_on_resource(resource, u) = None)
               <=> (GrantsAtOrBelow(resource, members[u]) = {})
    /\ \A role \in roles, resource \in Resources :
           (get_role_permissions_on_resource(resource, role) = None)
               <=> (GrantsAtOrBelow(resource, {role}) = {})

\* The only applicable grant has every flag 0 and the query returns the
\* all-zero record.
AbsenceSignalingWitness ==
    \E u \in Users :
        /\ GrantsAtOrBelow("X", members[u]) # {}
        /\ \A i \in GrantsAtOrBelow("X", members[u]) :
               permissions[i].flags = FlagsOf({}, 0)
        /\ get_user_permissions_on_resource("X", u) = FlagsOf({}, 0)
        /\ get_user_permissions_on_resource("Y", u) = None

\* after is flag by flag at least before, None counting as all zero.
PermGeq(after, before) ==
    \/ before = None
    \/ /\ after # None
       /\ \A f \in Flags : after[f] >= before[f]

\* C8: a step that adds a parent edge with no batch open removes no element
\* from the ancestors of any role, and leaves the role query of every role,
\* on every resource, flag by flag at least what it was.
PermissionMonotonicity ==
    [][(\E r \in Roles : parents[r] # parents'[r] /\ parents[r] \subseteq parents'[r])
        => /\ \A r \in Roles : ancestors[r] \subseteq ancestors'[r]
           /\ \A r \in roles, resource \in Resources :
                  PermGeq(get_role_permissions_on_resource(resource, r)',
                          get_role_permissions_on_resource(resource, r))]_vars

\* A parent has just been added to a role for which the role query on X
\* returns a record with some flag set.
PermissionMonotonicityWitness ==
    /\ last.op = "addParent"
    /\ Cardinality(ancestors[last.role]) >= 2
    /\ get_role_permissions_on_resource("X", last.role) # None
    /\ get_role_permissions_on_resource("X", last.role) # FlagsOf({}, 0)

\* C9: after any direct call of rebuild on a role (by save, by an edge
\* mutation or on its own) a further call finds the target equal to the
\* stored ancestors and changes nothing, and a rebuild that immediately
\* follows one on the same role leaves the ancestors of every role as they
\* were.
RebuildIdempotent ==
    [][/\ (last'.op \in RebuildingOps /\ last'.direct) =>
              /\ ancestors'[last'.role] =
                     {last'.role} \cup UNION {ancestors'[p] : p \in parents'[last'.role]}
              /\ RebuildAll(parents', ancestors', last'.role) = {ancestors'}
       /\ (last'.op = "rebuild" /\ last'.again) => ancestors' = ancestors]_vars

\* A rebuild has been called right after an edge mutation of the same role
\* had rebuilt it to more than itself.
RebuildIdempotentWitness ==
    /\ last.op = "rebuild" /\ last.again
    /\ Cardinality(ancestors[last.role]) >= 2

\* C10: on a finite store with an acyclic parent relation, whatever the
\* ancestors sets hold, the top-level rebuild or the flush that is run comes
\* to its end: the call stack empties after it has started.
RebuildTerminates == <>(last.op # "init" /\ stack = <<>>)

\* A flush is two recursive calls deep: the loop of the flush, a role it
\* rebuilt and a child of that role that changed in turn.
RebuildTerminatesWitness ==
    /\ last.op = "exit" /\ Len(stack) >= 3
    /\ \A i \in DOMAIN stack : stack[i].todo # {}

\* C11: Role.singleton is safe under concurrent first use: no call fails
\* with a uniqueness error, two calls that returned for the same label
\* returned the same role, which holds the label, and at most one role holds
\* a label.
SingletonConcurrentSafe ==
    /\ \A t \in Threads : singleton_call[t].pc # "raised"
    /\ \A t, u \in Threads :
           (/\ singleton_call[t].pc = "returned"
            /\ singleton_call[u].pc = "returned"
            /\ singleton_call[t].name = singleton_call[u].name)
               => singleton_call[t].ret = singleton_call[u].ret
    /\ \A t \in Threads :
           singleton_call[t].pc = "returned" =>
               singleton_call[t].ret[1] \in WithName(singleton_call[t].name)
    /\ \A name \in SingletonNames : Cardinality(WithName(name)) <= 1

\* What holds of the code: the unique index keeps one role per label and a
\* call that returns returns that role.
SingletonUnique ==
    /\ \A name \in SingletonNames : Cardinality(WithName(name)) <= 1
    /\ \A t \in Threads :
           singleton_call[t].pc = "returned" =>
               singleton_call[t].ret[1] \in WithName(singleton_call[t].name)

\* C12: while a top-level rebuild or a flush is running, what another
\* connection reads is the closure as it was before the invocation or the
\* closure the invocation ends with, never a part of its writes.
ClosureWritesAtomic ==
    stack # <<>> =>
        \/ Visible = at_start
        \/ InAtomic /\ Visible \in
               UNION {FlushInOrder(parents, at_start, order) :
                      order \in Orders(roles_needing_rebuilding["t1"][1] \cap roles)}
        \/ ~InAtomic /\ Visible \in RebuildAll(parents, at_start, stack[1].role)

\* The part that holds of the code: the writes of a running flush are not
\* visible before its transaction commits.
FlushWritesAtomic ==
    InAtomic => (Visible = at_start /\ ~batch_role_rebuilding["t1"])

\* C13: once a failure inside a direct rebuild or inside a flush has reached
\* the caller, the ancestors of every role are what they were before the
\* call started.
FailureLeavesClosure ==
    last.op \in {"rebuildFailed", "flushFailed"} => ancestors = at_start

\* The part that holds of the code: a failed flush is rolled back.
FlushFailureLeavesClosure ==
    last.op = "flushFailed" => ancestors = at_start

\* The thread-local batch state of a thread.
Tls(t) == <<batch_role_rebuilding[t], roles_needing_rebuilding[t], scopes[t]>>

\* C14: a step of thread b leaves the flag, the pending set and the open
\* scopes of every other thread as they were; the flush at b's outermost
\* exit changes no role that has no queued id of b's pending set among its
\* ancestors by parent edges; and a rebuild that b issues while its own flag
\* is off is executed at once, whatever batch another thread has open.
BatchStatePerContext ==
    [][\A b \in Threads : actor' = b =>
          /\ \A a \in Threads \ {b} : Tls(a)' = Tls(a)
          /\ last'.op = "exit" =>
                 \A r \in roles :
                     Closure(parents, r) \cap roles_needing_rebuilding[b][1] = {}
                         => ancestors'[r] = ancestors[r]
          /\ (~batch_role_rebuilding[b] /\ last'.op \in RebuildingOps) =>
                 /\ last'.direct
                 /\ roles_needing_rebuilding' = roles_needing_rebuilding
                 /\ ancestors'[last'.role] =
                        ActualAncestors(parents', ancestors', last'.role)]_vars

\* Thread t2 has just added a parent with a direct rebuild while t1 has a
\* batch open with ids queued in it.
BatchStatePerContextWitness ==
    /\ actor = "t2" /\ last.op = "addParent" /\ last.direct
    /\ Cardinality(ancestors[last.role]) >= 2
    /\ batch_role_rebuilding["t1"] /\ ~batch_role_rebuilding["t2"]
    /\ roles_needing_rebuilding["t1"] # <<>>
    /\ roles_needing_rebuilding["t1"][1] # {}

\* C15: a step that ends with the thread's batch active changes the
\* ancestors of no role, so every write the batch causes is made by the step
\* that leaves the outermost scope; and a rebuild call made inside the batch
\* only puts the id of its role (the new role, the role whose edge changed)
\* into the pending set.
Deferral ==
    [][/\ batch_role_rebuilding'["t1"] => ancestors' = ancestors
       /\ last'.op = "deferred" =>
              \E r \in roles' :
                  /\ roles_needing_rebuilding'["t1"] =
                         <<roles_needing_rebuilding["t1"][1] \cup {r}>>
                  /\ roles' # roles => r \in roles' \ roles
                  /\ parents' # parents => parents'[r] # parents[r]]_vars

\* Two ids are queued in an open batch and a role of the graph still has the
\* ancestors it had before the batch changed its parents.
DeferralWitness ==
    /\ batch_role_rebuilding["t1"] /\ last.op = "deferred"
    /\ Cardinality(roles_needing_rebuilding["t1"][1]) >= 2
    /\ \E r \in roles : parents[r] # {} /\ ancestors[r] \cap parents[r] = {}

\* C16: entering a scope while a batch is active keeps the pending set;
\* leaving a nested scope rebuilds nothing, keeps the pending set and leaves
\* the batch active; only the step that leaves the outermost scope rebuilds,
\* and it rebuilds every queued role and deletes the pending set; neither
\* the depth nor the allow_nesting argument of a scope makes a difference.
NestingOneFlush ==
    [][/\ (last'.op = "enter" /\ batch_role_rebuilding["t1"]) =>
              /\ roles_needing_rebuilding' = roles_needing_rebuilding
              /\ ancestors' = ancestors
       /\ last'.op = "exitNested" =>
              /\ ancestors' = ancestors
              /\ roles_needing_rebuilding' = roles_needing_rebuilding
              /\ batch_role_rebuilding'["t1"]
       /\ ancestors' # ancestors /\ batch_role_rebuilding["t1"] =>
              last'.op = "exit" /\ Len(scopes["t1"]) = 1
       /\ last'.op = "exit" =>
              /\ Len(scopes["t1"]) = 1
              /\ ~batch_role_rebuilding'["t1"]
              /\ roles_needing_rebuilding'["t1"] = <<>>
              /\ \A r \in roles_needing_rebuilding["t1"][1] \cap roles :
                     ancestors'[r] = ActualAncestors(parents', ancestors', r)]_vars

\* A nested scope, entered with allow_nesting left false after an id had
\* been queued, has queued a second id.
NestingOneFlushWitness ==
    /\ Len(scopes["t1"]) = 2 /\ ~scopes["t1"][2].allow_nesting
    /\ last.op = "deferred"
    /\ Cardinality(roles_needing_rebuilding["t1"][1]) >= 2

\* C17: the flush loop runs with the thread's flag off; it starts over the
\* queued ids that still have a row, each once; each of its calls recomputes
\* the ancestors of its role and puts nothing into the pending set; and when
\* the loop has ended without a failure every id has been taken and the
\* pending set is gone.
FlushExecutes ==
    [][/\ InAtomic => ~batch_role_rebuilding["t1"]
       /\ (stack = <<>> /\ stack' # <<>> /\ stack'[1].role = 0) =>
              stack'[1].todo = roles_needing_rebuilding["t1"][1] \cap roles
       /\ (InAtomic /\ Len(stack) = 1 /\ stack' # <<>>) =>
              \E c \in stack[1].todo :
                  /\ stack'[1].todo = stack[1].todo \ {c}
                  /\ ancestors'[c] = ActualAncestors(parents, ancestors, c)
                  /\ roles_needing_rebuilding' = roles_needing_rebuilding
       /\ (InAtomic /\ stack' = <<>> /\ last'.op # "flushFailed") =>
              /\ stack[1].todo = {}
              /\ roles_needing_rebuilding'["t1"] = <<>>]_vars

\* A flush whose pending set holds the id of a role deleted in the meantime
\* has recomputed the ancestors of a role and is inside that call.
FlushExecutesWitness ==
    /\ InAtomic /\ Len(stack) >= 2
    /\ roles_needing_rebuilding["t1"][1] \ roles # {}
    /\ ancestors # at_start

\* C20: whenever a scope is left, by the end of its body, by an exception
\* out of its body or with a flush that fails, the thread's flag is what it
\* was before the scope was entered: on while an enclosing scope is open,
\* off after the outermost; so the flag is never on with no scope open whose
\* exit will flush; and a scope entered with none open starts with an empty
\* pending set, whatever an earlier failed flush left behind.
ScopeRestoresContext ==
    [][/\ Len(scopes'["t1"]) < Len(scopes["t1"]) =>
              batch_role_rebuilding'["t1"] = (scopes'["t1"] # <<>>)
       /\ batch_role_rebuilding'["t1"] => scopes'["t1"] # <<>>
       /\ (scopes["t1"] = <<>> /\ scopes'["t1"] # <<>>) =>
              roles_needing_rebuilding'["t1"] = <<{}>>]_vars

\* A flush has failed: the flag is off, no scope is open and the ids of the
\* failed flush are still in the pending set.
ScopeRestoresContextWitness ==
    /\ last.op = "flushFailed"
    /\ ~batch_role_rebuilding["t1"] /\ scopes["t1"] = <<>>
    /\ roles_needing_rebuilding["t1"] # <<>>
    /\ roles_needing_rebuilding["t1"][1] # {}

\* The body of a nested scope has raised and the exception has left both
\* scopes, the outermost one flushing on its way.
BodyRaisedWitness ==
    /\ last.op = "exitRaising" /\ stack = <<>>
    /\ ~batch_role_rebuilding["t1"] /\ scopes["t1"] = <<>>
    /\ roles_needing_rebuilding["t1"] = <<>>
    /\ \E r \in roles : Cardinality(ancestors[r]) >= 2

\* C18: with no batch ever open, whatever parent edges have been removed (or
\* added), a user who is a direct member of a role gets from the user query
\* on a resource at least the flags of every grant made to that role on that
\* resource; in the scenario, as long as project-admin's grant is the only
\* one on X, alice gets exactly create, read, update and delete.
DirectGrantsSurvive ==
    /\ \A u \in Users, i \in DOMAIN permissions :
           permissions[i].role \in members[u] =>
               PermGeq(get_user_permissions_on_resource(permissions[i].resource, u),
                       permissions[i].flags)
    /\ (/\ 3 \in members["alice"]
        /\ \A i \in DOMAIN permissions :
               permissions[i].resource = "X" =>
                   permissions[i].role = 3 /\ permissions[i].flags = CrudFlags)
           => get_user_permissions_on_resource("X", "alice") = CrudFlags

\* Team's parent org and project-admin's parent team have both been removed
\* and alice still gets the four flags.
DirectGrantsSurviveWitness ==
    /\ last.op = "removeParent"
    /\ parents[2] = {} /\ parents[3] = {}
    /\ members["alice"] = {3} /\ Len(permissions) = 1
    /\ get_user_permissions_on_resource("X", "alice") = CrudFlags

\* C19: a role created while a batch is active gets no ancestors; as long as
\* the batch stays active no ancestors change, the role is queued,
\* is_ancestor_of(R, R) is false, no grant made to R is selected for a
\* member of R, and a user who holds only such roles gets None; once no
\* batch is active every role is among its own ancestors and a member of a
\* role gets at least the flags of each grant made to that role.
StaleInsideBatch ==
    [][/\ batch_role_rebuilding["t1"] =>
              \A r \in roles' \ roles : ancestors'[r] = {}
       /\ batch_role_rebuilding'["t1"] =>
              /\ ancestors' = ancestors
              /\ \A r \in roles' : ancestors'[r] = {} =>
                     /\ r \in roles_needing_rebuilding'["t1"][1]
                     /\ ~is_ancestor_of(r, r)'
                     /\ \A u \in Users, resource \in Resources :
                            r \in members'[u] =>
                                /\ \A i \in DOMAIN permissions' :
                                       permissions'[i].role = r =>
                                           i \notin UserGrants(resource, u)'
                                /\ (\A m \in members'[u] : ancestors'[m] = {}) =>
                                       get_user_permissions_on_resource(resource, u)' = None
       /\ ~batch_role_rebuilding'["t1"] =>
              /\ \A r \in roles' : is_ancestor_of(r, r)'
              /\ \A u \in Users, resource \in Resources, i \in DOMAIN permissions' :
                     (/\ permissions'[i].role \in members'[u]
                      /\ permissions'[i].resource = resource) =>
                         PermGeq(get_user_permissions_on_resource(resource, u)',
                                 permissions'[i].flags)]_vars

\* Inside a batch alice is a member of a role created in it, the role has a
\* grant on X and the query returns None.
StaleInsideBatchWitness ==
    /\ batch_role_rebuilding["t1"]
    /\ \E r \in roles, i \in DOMAIN permissions :
           /\ ancestors[r] = {} /\ ~is_ancestor_of(r, r)
           /\ r \in members["alice"]
           /\ permissions[i].role = r /\ permissions[i].resource = "X"
           /\ permissions[i].flags["read"] = 1
           /\ get_user_permissions_on_resource("X", "alice") = None

====
